---- MODULE Spec2Model ----
(***************************************************************************)
(* Lifecycle controller of the password_argon2 resource                    *)
(* (terraform-provider-password).  The repository holds two revisions of   *)
(* the resource: one whose salt is generated by the hasher ("generated",   *)
(* src/unnamed/part_000 lines 1-226) and one with an operator supplied     *)
(* salt attribute ("explicit", lines 228-472).  Both are modelled; the     *)
(* variable variant selects the revision a behaviour runs.                 *)
(***************************************************************************)
EXTENDS Integers, Sequences, FiniteSets, TLC

VARIABLES variant, state, origin, diags, last

vars == <<variant, state, origin, diags, last>>

(***************************************************************************)
(* Bounds of the model.                                                    *)
(***************************************************************************)
NumPasswords == 2
NumSalts == 2
NumRandomSalts == 2
MaxParam == 2
NumImportIds == 1

AllPasswords == <<"example-password", "new-password", "third-password", "fourth-password">>
AllSalts == <<"example-salt", "new-salt", "third-salt", "fourth-salt">>
AllImportIds == <<"imported-id", "argon2-id", "other-id", "fourth-id">>

Passwords == {AllPasswords[i] : i \in 1..NumPasswords}
Salts == {AllSalts[i] : i \in 1..NumSalts}
RandomSalts == 1..NumRandomSalts
ImportIds == {AllImportIds[i] : i \in 1..NumImportIds}

Variants == {"generated", "explicit"}

(***************************************************************************)
(* Attribute values.  A framework value (types.String, types.Int32) is     *)
(* null, unknown or known; the zero value of the Go type is null.          *)
(***************************************************************************)
NullString == [st |-> "null", v |-> ""]
UnknownString == [st |-> "unknown", v |-> ""]
StringValue(s) == [st |-> "known", v |-> s]

NullInt32 == [st |-> "null", v |-> 0]
Int32Value(n) == [st |-> "known", v |-> n]

\* types.String.Equal: same state and, when known, same value.
Equal(a, b) == a.st = b.st /\ (a.st = "known" => a.v = b.v)

(***************************************************************************)
(* Digests.  An encoded digest names the parameters and the salt it was    *)
(* computed with; its key is a function of the password, the salt and the  *)
(* parameters, kept here as the password itself so that verification can   *)
(* recompute it.                                                           *)
(***************************************************************************)
NoDigestString == [pw |-> "", rsalt |-> 0, t |-> 0, k |-> 0, m |-> 0, p |-> 0]
NullHash == [st |-> "null", v |-> NoDigestString]
UnknownHash == [st |-> "unknown", v |-> NoDigestString]

\* digest.String(): the encoded form of a computed digest.
DigestString(digest) ==
    [pw |-> digest.pw, rsalt |-> digest.rsalt,
     t |-> digest.t, k |-> digest.k, m |-> digest.m, p |-> digest.p]

HashValue(digest) == [st |-> "known", v |-> DigestString(digest)]

\* crypt.CheckPassword(password, value) of the acceptance tests.
CheckPassword(password, hash) == hash.st = "known" /\ hash.v.pw = password

(***************************************************************************)
(* Argon2ResourceModel.  The generated-salt revision has no salt and no    *)
(* time attribute; they stay null there.                                   *)
(***************************************************************************)
ZeroModel ==
    [password |-> NullString, salt |-> NullString,
     key_len |-> NullInt32, time |-> NullInt32, thread |-> NullInt32,
     memory |-> NullInt32, iterations |-> NullInt32,
     hash |-> NullHash, id |-> NullString]

SchemaAttributes(var) ==
    IF var = "explicit"
    THEN {"password", "salt", "key_len", "time", "thread", "memory",
          "iterations", "hash", "id"}
    ELSE {"password", "key_len", "thread", "memory", "iterations", "hash", "id"}

\* The persisted state of the resource: absent (a null raw value) or a record.
Absent == [present |-> FALSE, attrs |-> ZeroModel]
Stored(attrs) == [present |-> TRUE, attrs |-> attrs]

(***************************************************************************)
(* State.Get / Plan.Get decode the schema's attributes into the model      *)
(* struct; when decoding fails the target keeps its zero value and an      *)
(* error diagnostic is returned.  State.Set encodes the struct back.       *)
(***************************************************************************)
Decode(var, attrs) ==
    [password |-> attrs.password,
     salt |-> IF "salt" \in SchemaAttributes(var) THEN attrs.salt ELSE NullString,
     key_len |-> attrs.key_len,
     time |-> IF "time" \in SchemaAttributes(var) THEN attrs.time ELSE NullInt32,
     thread |-> attrs.thread,
     memory |-> attrs.memory,
     iterations |-> attrs.iterations,
     hash |-> attrs.hash,
     id |-> attrs.id]

Get(var, attrs, fails) == IF fails THEN ZeroModel ELSE Decode(var, attrs)

StateSet(var, data) == Stored(Decode(var, data))

\* fmt.Sprintf(format, err) with one %s verb: the text is the format with
\* the argument's text in place of the verb.
Sprintf(format, arg) == [format |-> format, arg |-> arg]

\* diag.AddError(summary, detail) appends an error diagnostic of this form.
ErrorDiagnostic(summary, detail) ==
    [severity |-> "error", summary |-> summary, detail |-> detail]

\* The framework's diagnostic for a model the plan or state does not decode
\* into; its detail names the target type, not the values.
GetDiagnostics(fails) ==
    IF fails
    THEN <<ErrorDiagnostic("Value Conversion Error",
                           Sprintf("An unexpected error was encountered trying to build a value. %s",
                                   "Target Type: Argon2ResourceModel"))>>
    ELSE <<>>

HasError(ds) == \E i \in 1..Len(ds) : ds[i].severity = "error"

(***************************************************************************)
(* The plan the engine hands to Create and Update, as the schema makes it: *)
(* password (and salt) come from the configuration; the cost parameters    *)
(* come from the configuration (generated-salt revision: Optional and      *)
(* Computed) or are the schema's defaults (explicit-salt revision:         *)
(* Computed only); hash is unknown; id is unknown on create and the        *)
(* state's id afterwards (UseStateForUnknown).                             *)
(***************************************************************************)
KeyLenDefault == 32
TimeDefault == 1
NumCPU == 4
MemoryDefault == 65536
IterationsDefault == 3

\* Cost parameters the operator writes in the generated-salt revision: the
\* four set to one valid value, or the smallest valid values with one of the
\* four set to 0.
Uniform(n) == [t |-> n, k |-> n, m |-> n, p |-> n]

CostParamInputs ==
    {Uniform(n) : n \in 1..MaxParam}
        \cup {[Uniform(1) EXCEPT ![f] = 0] : f \in {"t", "k", "m", "p"}}

ExplicitCostParams ==
    [t |-> IterationsDefault, k |-> KeyLenDefault, m |-> MemoryDefault, p |-> NumCPU]

ConfigsExplicit ==
    {[password |-> pw, salt |-> StringValue(s), cost |-> ExplicitCostParams] :
        pw \in Passwords, s \in Salts}

ConfigsGenerated ==
    {[password |-> pw, salt |-> NullString, cost |-> c] :
        pw \in Passwords, c \in CostParamInputs}

Configs(var) == IF var = "explicit" THEN ConfigsExplicit ELSE ConfigsGenerated

\* Mutant of PlanId: the id attribute without its UseStateForUnknown modifier.
PlanIdWithoutModifier(prior) == UnknownString

PlanId(prior) == IF prior.present THEN prior.attrs.id ELSE UnknownString

Plan(var, cfg, prior) ==
    [password |-> StringValue(cfg.password),
     salt |-> cfg.salt,
     key_len |-> Int32Value(cfg.cost.k),
     time |-> IF var = "explicit" THEN Int32Value(TimeDefault) ELSE NullInt32,
     thread |-> Int32Value(cfg.cost.p),
     memory |-> Int32Value(cfg.cost.m),
     iterations |-> Int32Value(cfg.cost.t),
     hash |-> UnknownHash,
     id |-> PlanId(prior)]

(***************************************************************************)
(* The hasher.  ProfileRFC9106Recommended.Hasher() starts from the         *)
(* profile's parameters; WithOptions applies its options in order and      *)
(* stops at the first one that rejects its value, leaving the later        *)
(* options unapplied.  Each option has its own smallest accepted value in  *)
(* the library; cost values are abstract here and every option accepts     *)
(* exactly the values from 1 up, so 0 stands for a rejected value.         *)
(***************************************************************************)
ProfileRFC9106Recommended == [t |-> 1, k |-> 32, m |-> 2097152, p |-> 4]

OptionValid(n) == n >= 1

WithOptions(hasher, data) ==
    LET t == data.iterations.v
        k == data.key_len.v
        m == data.memory.v  \* uint32(...) of a value that is never negative here
        p == data.thread.v
        h1 == [hasher EXCEPT !.t = t]
        h2 == [h1 EXCEPT !.k = k]
        h3 == [h2 EXCEPT !.m = m]
        h4 == [h3 EXCEPT !.p = p]
    IN  IF ~OptionValid(t) THEN [hasher |-> hasher, err |-> TRUE]
        ELSE IF ~OptionValid(k) THEN [hasher |-> h1, err |-> TRUE]
        ELSE IF ~OptionValid(m) THEN [hasher |-> h2, err |-> TRUE]
        ELSE IF ~OptionValid(p) THEN [hasher |-> h3, err |-> TRUE]
        ELSE [hasher |-> h4, err |-> FALSE]

\* hasher.Hash(password): a digest over a salt the hasher draws itself.
Hash(hasher, password, rsalt) ==
    [pw |-> password, rsalt |-> rsalt,
     t |-> hasher.t, k |-> hasher.k, m |-> hasher.m, p |-> hasher.p]

\* The salt embedded in a digest: the random bytes the hasher drew, which
\* are no salt of any configuration.
AllRandomSaltTexts == <<"random-salt-1", "random-salt-2", "random-salt-3", "random-salt-4">>
DigestSalt(digest) == StringValue(AllRandomSaltTexts[digest.rsalt])

\* What the library may do in one call of generatePassword: argon2.New may
\* fail (explicit-salt revision), Hash may fail, Hash draws a salt.
LibraryEnv(newFails, hashFails, rsalt) ==
    [newFails |-> newFails, hashFails |-> hashFails, rsalt |-> rsalt]

\* err.Error() of the library's errors: a rejected option, a failed
\* construction, a failed hash.  The texts name the kind of failure (and, in
\* the library, the rejected cost value); none is built from the password.
OptionErrorText == "argon2 validation error: parameter is invalid"
NewErrorText == "argon2 validation error: profile is invalid"
HashErrorText == "argon2 hashing error: error reading random bytes for the salt"

\* The diagnostics generatePassword adds, with data in scope.
OptionErrorDiagnostic(data, err) ==
    ErrorDiagnostic("Argon 2 initialization error",
                    Sprintf("Unable to generate hash, got error %s", err))

NewErrorDiagnostic(data, err) ==
    ErrorDiagnostic("Argon 2 error", Sprintf("Unable to create Argon2, got error: %s", err))

\* Mutant of HashErrorDiagnostic: the password is formatted into the detail.
HashErrorDiagnosticWithPassword(data, err) ==
    ErrorDiagnostic("Argon 2 error",
                    Sprintf("Unable to hash Argon2, got error: %s", data.password.v))

HashErrorDiagnostic(data, err) ==
    ErrorDiagnostic("Argon 2 error", Sprintf("Unable to hash Argon2, got error: %s", err))

GenEnvsGenerated ==
    {LibraryEnv(FALSE, FALSE, r) : r \in RandomSalts} \cup {LibraryEnv(FALSE, TRUE, 1)}

GenEnvsExplicit == GenEnvsGenerated \cup {LibraryEnv(TRUE, FALSE, 1)}

GenEnvs(var) == IF var = "explicit" THEN GenEnvsExplicit ELSE GenEnvsGenerated

NoGen ==
    [called |-> FALSE, nil |-> FALSE, digest |-> NoDigestString, diag |-> <<>>,
     optErr |-> FALSE, newErr |-> FALSE, hashErr |-> FALSE, hashCalls |-> 0]

(***************************************************************************)
(* generatePassword(diag, data).  diag is a diag.Diagnostics slice passed  *)
(* by value: AddError appends to the function's own copy, which the        *)
(* result records as diag; the caller's diagnostics are not touched.       *)
(***************************************************************************)
generatePasswordGenerated(diag, data, env) ==
    LET opt == WithOptions(ProfileRFC9106Recommended, data)
        d1 == IF opt.err
              THEN Append(diag, OptionErrorDiagnostic(data, OptionErrorText))
              ELSE diag
    IN  IF env.hashFails
        THEN [NoGen EXCEPT !.called = TRUE, !.nil = TRUE,
                    !.diag = Append(d1, HashErrorDiagnostic(data, HashErrorText)),
                    !.optErr = opt.err, !.hashErr = TRUE, !.hashCalls = 1]
        ELSE [NoGen EXCEPT !.called = TRUE,
                    !.digest = Hash(opt.hasher, data.password.v, env.rsalt),
                    !.diag = d1, !.optErr = opt.err, !.hashCalls = 1]

generatePasswordExplicit(diag, data, env) ==
    IF env.newFails
    THEN [NoGen EXCEPT !.called = TRUE, !.nil = TRUE,
                !.diag = Append(diag, NewErrorDiagnostic(data, NewErrorText)),
                !.newErr = TRUE]
    ELSE IF env.hashFails
    THEN [NoGen EXCEPT !.called = TRUE, !.nil = TRUE,
                !.diag = Append(diag, HashErrorDiagnostic(data, HashErrorText)),
                !.hashErr = TRUE, !.hashCalls = 1]
    ELSE [NoGen EXCEPT !.called = TRUE,
                !.digest = Hash(ProfileRFC9106Recommended, data.password.v, env.rsalt),
                !.diag = diag, !.hashCalls = 1]

generatePassword(var, diag, data, env) ==
    IF var = "explicit"
    THEN generatePasswordExplicit(diag, data, env)
    ELSE generatePasswordGenerated(diag, data, env)

(***************************************************************************)
(* The handlers.  Each yields the response: the state to persist (the      *)
(* response's State starts as the prior state and changes only through     *)
(* State.Set), the response's diagnostics, and what the handler did.       *)
(***************************************************************************)
Response(st, ds, planOk, stateOk, data, oldData, gen) ==
    [state |-> st, diags |-> ds, planOk |-> planOk, stateOk |-> stateOk,
     data |-> data, oldData |-> oldData, gen |-> gen]

\* Mutant of AssignId: Create leaves the plan's id in place.
AssignIdSkipped(data) == data

\* data.Id = types.StringValue("argon2-id")
AssignId(data) == [data EXCEPT !.id = StringValue("argon2-id")]

\* data.Hash = types.StringValue(digest.String())
AssignHash(data, digest) == [data EXCEPT !.hash = HashValue(digest)]

\* Mutant of DigestIsNil: the handlers go on after a failed generatePassword.
DigestNeverNil(gen) == FALSE

\* if digest == nil { return }
DigestIsNil(gen) == gen.nil

CreateResponse(var, plan, planFails, env) ==
    LET data0 == Get(var, plan, planFails)
        d0 == GetDiagnostics(planFails)
    IN  IF HasError(d0)
        THEN Response(Absent, d0, FALSE, TRUE, data0, ZeroModel, NoGen)
        ELSE LET data1 == AssignId(data0)
                 gen == generatePassword(var, d0, data1, env)
             IN  IF DigestIsNil(gen)
                 THEN Response(Absent, d0, TRUE, TRUE, data1, ZeroModel, gen)
                 ELSE LET data2 == AssignHash(data1, gen.digest)
                      IN  Response(StateSet(var, data2), d0, TRUE, TRUE, data2,
                                   ZeroModel, gen)

\* Mutant of ReadResponse: Read writes the record back without its hash.
ReadResponseDroppingHash(var, prior, stateFails) ==
    LET data == Get(var, prior.attrs, stateFails)
        d0 == GetDiagnostics(stateFails)
    IN  IF HasError(d0)
        THEN Response(prior, d0, TRUE, FALSE, data, ZeroModel, NoGen)
        ELSE Response(StateSet(var, [data EXCEPT !.hash = NullHash]), d0, TRUE, TRUE,
                      data, ZeroModel, NoGen)

ReadResponse(var, prior, stateFails) ==
    LET data == Get(var, prior.attrs, stateFails)
        d0 == GetDiagnostics(stateFails)
    IN  IF HasError(d0)
        THEN Response(prior, d0, TRUE, FALSE, data, ZeroModel, NoGen)
        ELSE Response(StateSet(var, data), d0, TRUE, TRUE, data, ZeroModel, NoGen)

\* Mutants of PasswordUnchanged: the comparison also looks at the salt; the
\* comparison is inverted.
PasswordAndSaltUnchanged(oldData, data) ==
    Equal(oldData.password, data.password) /\ Equal(oldData.salt, data.salt)

PasswordChanged(oldData, data) == ~Equal(oldData.password, data.password)

\* oldData.Password.Equal(data.Password)
PasswordUnchanged(oldData, data) == Equal(oldData.password, data.password)

\* Mutant of CarryHash: the prior hash is not copied into the plan data.
CarryHashSkipped(data, oldData) == data

\* data.Hash = oldData.Hash
CarryHash(data, oldData) == [data EXCEPT !.hash = oldData.hash]

UpdateResponse(var, prior, plan, planFails, stateFails, env) ==
    LET data0 == Get(var, plan, planFails)
        d0 == GetDiagnostics(planFails)
    IN  IF HasError(d0)
        THEN Response(prior, d0, FALSE, TRUE, data0, ZeroModel, NoGen)
        ELSE LET oldData == Get(var, prior.attrs, stateFails)
                 d1 == d0 \o GetDiagnostics(stateFails)
             IN  IF PasswordUnchanged(oldData, data0)
                 THEN LET data1 == CarryHash(data0, oldData)
                      IN  Response(StateSet(var, data1), d1, TRUE, ~stateFails,
                                   data1, oldData, NoGen)
                 ELSE LET gen == generatePassword(var, d1, data0, env)
                      IN  IF DigestIsNil(gen)
                          THEN Response(prior, d1, TRUE, ~stateFails, data0,
                                        oldData, gen)
                          ELSE LET data2 == AssignHash(data0, gen.digest)
                               IN  Response(StateSet(var, data2), d1, TRUE,
                                            ~stateFails, data2, oldData, gen)

\* Delete only reads the state; with no error diagnostic in the response the
\* framework drops the resource from the state.
DeleteResponse(var, prior, stateFails) ==
    LET data == Get(var, prior.attrs, stateFails)
        d0 == GetDiagnostics(stateFails)
    IN  IF HasError(d0)
        THEN Response(prior, d0, TRUE, FALSE, data, ZeroModel, NoGen)
        ELSE Response(Absent, d0, TRUE, TRUE, data, ZeroModel, NoGen)

\* Mutant of ImportStateResponse: the import writes the id Create assigns.
ImportStateResponseFixedId(var, id) ==
    Response(Stored([ZeroModel EXCEPT !.id = StringValue("argon2-id")]), <<>>, TRUE,
             TRUE, ZeroModel, ZeroModel, NoGen)

\* resource.ImportStatePassthroughID(ctx, path.Root("id"), req, resp): the
\* import key is written to id, every other attribute stays null.
ImportStateResponse(var, id) ==
    Response(Stored([ZeroModel EXCEPT !.id = StringValue(id)]), <<>>, TRUE, TRUE,
             ZeroModel, ZeroModel, NoGen)

(***************************************************************************)
(* The state machine: the engine calls one handler at a time on the one    *)
(* resource instance, and persists the response's state.  last records     *)
(* the call just made: the handler, whether the configuration it was       *)
(* given had the persisted password and salt, whether its reads            *)
(* succeeded, and what generatePassword did.                               *)
(*                                                                         *)
(* A call whose plan cannot be read does not depend on the configuration,  *)
(* and a call that never reaches generatePassword does not depend on what  *)
(* the library would have done: such calls are taken once, with the first  *)
(* configuration and library behaviour.                                    *)
(***************************************************************************)
SamePassword(cfg, prior) == Equal(StringValue(cfg.password), prior.attrs.password)
SameSalt(cfg, prior) == Equal(cfg.salt, prior.attrs.salt)

Called(op, cfg, prior, resp) ==
    [op |-> op,
     password |-> IF resp.planOk THEN StringValue(cfg.password) ELSE NullString,
     salt |-> IF resp.planOk THEN cfg.salt ELSE NullString,
     pwSame |-> resp.planOk /\ SamePassword(cfg, prior),
     saltSame |-> resp.planOk /\ SameSalt(cfg, prior),
     key |-> NullString,
     planOk |-> resp.planOk, stateOk |-> resp.stateOk, gen |-> resp.gen]

\* Read, Delete and ImportState are given no configuration.
CalledWithoutConfig(op, resp) ==
    [op |-> op, password |-> NullString, salt |-> NullString,
     pwSame |-> FALSE, saltSame |-> FALSE, key |-> NullString,
     planOk |-> resp.planOk, stateOk |-> resp.stateOk, gen |-> resp.gen]

\* ImportState is given the import key, req.ID.
CalledImport(id, resp) ==
    [CalledWithoutConfig("ImportState", resp) EXCEPT !.key = StringValue(id)]

AnyConfigExplicit == CHOOSE cfg \in ConfigsExplicit : TRUE
AnyConfigGenerated == CHOOSE cfg \in ConfigsGenerated : TRUE
AnyConfig(var) == IF var = "explicit" THEN AnyConfigExplicit ELSE AnyConfigGenerated
AnyEnv(var) == LibraryEnv(FALSE, FALSE, 1)

ConfigsRead(var, planFails) == IF planFails THEN {AnyConfig(var)} ELSE Configs(var)
EnvsUsed(var, probe) == IF probe.gen.called THEN GenEnvs(var) ELSE {AnyEnv(var)}

Init ==
    /\ variant \in Variants
    /\ state = Absent
    /\ origin = "none"
    /\ diags = <<>>
    /\ last = [op |-> "none", password |-> NullString, salt |-> NullString,
               pwSame |-> FALSE, saltSame |-> FALSE, key |-> NullString,
               planOk |-> TRUE, stateOk |-> TRUE, gen |-> NoGen]

Create ==
    /\ ~state.present
    /\ \E planFails \in BOOLEAN :
       \E cfg \in ConfigsRead(variant, planFails) :
       \E plan \in {Plan(variant, cfg, state)} :
       \E probe \in {CreateResponse(variant, plan, planFails, AnyEnv(variant))} :
       \E env \in EnvsUsed(variant, probe) :
       \E resp \in {IF env = AnyEnv(variant) THEN probe
                    ELSE CreateResponse(variant, plan, planFails, env)} :
            /\ state' = resp.state
            /\ diags' = resp.diags
            /\ origin' = IF resp.state.present THEN "create" ELSE origin
            /\ last' = Called("Create", cfg, state, resp)
    /\ UNCHANGED variant

Read ==
    /\ state.present
    /\ \E stateFails \in BOOLEAN :
        \E resp \in {ReadResponse(variant, state, stateFails)} :
            /\ state' = resp.state
            /\ diags' = resp.diags
            /\ last' = CalledWithoutConfig("Read", resp)
    /\ UNCHANGED <<variant, origin>>

Update ==
    /\ state.present
    /\ \E planFails \in BOOLEAN, stateFails \in BOOLEAN :
       \E cfg \in ConfigsRead(variant, planFails) :
       \E plan \in {Plan(variant, cfg, state)} :
       \E probe \in {UpdateResponse(variant, state, plan, planFails, stateFails,
                                    AnyEnv(variant))} :
       \E env \in EnvsUsed(variant, probe) :
       \E resp \in {IF env = AnyEnv(variant) THEN probe
                    ELSE UpdateResponse(variant, state, plan, planFails, stateFails,
                                        env)} :
            /\ state' = resp.state
            /\ diags' = resp.diags
            /\ last' = Called("Update", cfg, state, resp)
    /\ UNCHANGED <<variant, origin>>

Delete ==
    /\ state.present
    /\ \E stateFails \in BOOLEAN :
        \E resp \in {DeleteResponse(variant, state, stateFails)} :
            /\ state' = resp.state
            /\ diags' = resp.diags
            /\ origin' = IF resp.state.present THEN origin ELSE "none"
            /\ last' = CalledWithoutConfig("Delete", resp)
    /\ UNCHANGED variant

ImportState ==
    /\ ~state.present
    /\ \E id \in ImportIds :
        \E resp \in {ImportStateResponse(variant, id)} :
            /\ state' = resp.state
            /\ diags' = resp.diags
            /\ origin' = "import"
            /\ last' = CalledImport(id, resp)
    /\ UNCHANGED variant

Next == Create \/ Read \/ Update \/ Delete \/ ImportState

Spec == Init /\ [][Next]_vars

(***************************************************************************)
(* Properties.                                                             *)
(***************************************************************************)
ArgonId == StringValue("argon2-id")

UpdateRead(l) == l.op = "Update" /\ l.planOk /\ l.stateOk

EngineFailed(l) == l.gen.newErr \/ l.gen.hashErr

\* C1: an Update that reads its plan and the prior record and whose desired
\* password equals the prior password persists the prior hash verbatim and
\* does not call the hasher, whatever the cost parameters and the salt of
\* the prior and the desired record are.
C1_UnchangedPasswordKeepsHash ==
    [][(UpdateRead(last') /\ last'.pwSame)
        => /\ state'.present
           /\ state'.attrs.hash = state.attrs.hash
           /\ ~last'.gen.called
           /\ last'.gen.hashCalls = 0]_vars

\* C1 witness: after such an Update in the generated-salt revision the record
\* holds key_len 2 next to a hash computed with key length 1.
C1_Witness ==
    /\ variant = "generated"
    /\ UpdateRead(last) /\ last.pwSame
    /\ state.present
    /\ state.attrs.hash.st = "known"
    /\ state.attrs.key_len.v = 2
    /\ state.attrs.hash.v.k = 1

\* C2: an Update whose desired password differs from the prior password and
\* whose hasher does not fail calls Hash exactly once and persists the
\* desired password with a hash that differs from the prior hash, verifies
\* against the desired password and does not verify against the prior one;
\* no Update calls Hash more than once.
C2_ChangedPasswordRehashes ==
    [][(last'.op = "Update" /\ last'.planOk)
        => /\ last'.gen.hashCalls <= 1
           /\ (~last'.pwSame /\ ~EngineFailed(last'))
                => /\ last'.gen.hashCalls = 1
                   /\ state'.present
                   /\ state'.attrs.password = last'.password
                   /\ state'.attrs.hash # state.attrs.hash
                   /\ CheckPassword(last'.password.v, state'.attrs.hash)
                   /\ ~CheckPassword(state.attrs.password.v, state'.attrs.hash)]_vars

\* C2 witness: an Update with a new password has persisted a new hash over a
\* record that had a password before.
C2_Witness ==
    /\ UpdateRead(last) /\ ~last.pwSame
    /\ last.gen.called /\ ~last.gen.nil
    /\ origin = "create"
    /\ CheckPassword(last.password.v, state.attrs.hash)

C4_IdentifierImmutable ==
    origin = "create" => (state.present /\ state.attrs.id = ArgonId)

\* C4 witness: a created record after an Update that replaced its hash.
C4_Witness ==
    /\ origin = "create"
    /\ last.op = "Update" /\ last.planOk /\ ~last.pwSame
    /\ last.gen.called /\ ~last.gen.nil
    /\ state.attrs.id = ArgonId

\* C5: a Create that reads its plan and gets a digest persists a record with
\* id "argon2-id", the desired password and salt, and a hash that verifies
\* against the desired password.
C5_CreatePersists ==
    (last.op = "Create" /\ last.planOk /\ ~EngineFailed(last))
        => /\ state.present
           /\ state.attrs.id = ArgonId
           /\ state.attrs.password = last.password
           /\ state.attrs.salt = last.salt
           /\ state.attrs.hash.st = "known"
           /\ CheckPassword(last.password.v, state.attrs.hash)

\* C5 witness: the record right after a successful Create.
C5_Witness ==
    /\ last.op = "Create" /\ last.planOk /\ ~EngineFailed(last)
    /\ state.present
    /\ last.password.st = "known"

\* C6: a Create or Update whose generatePassword returns no digest leaves
\* the persisted state as it was: absent after Create, the prior record
\* after Update.
C6_EngineFailureWritesNothing ==
    [][(last'.op \in {"Create", "Update"} /\ EngineFailed(last'))
        => /\ state' = state
           /\ (last'.op = "Create" => ~state'.present)]_vars

\* C6 witness: a record that exists and whose last Update, given another
\* password, got no digest.
C6_Witness ==
    /\ last.op = "Update" /\ last.planOk /\ ~last.pwSame
    /\ EngineFailed(last) /\ last.gen.nil
    /\ state.present
    /\ state.attrs.hash.st = "known"

\* C7 as stated: whenever generatePassword fails, the response holds an
\* error diagnostic.
C7_FailureHasDiagnostic ==
    (last.op \in {"Create", "Update"} /\ last.gen.called /\ last.gen.nil)
        => HasError(diags)

\* C8 as stated: after a WithOptions error Hash is not called and no hash is
\* persisted by the call.
C8_InvalidOptionsStopBeforeHash ==
    (last.op \in {"Create", "Update"} /\ last.gen.optErr)
        => /\ last.gen.hashCalls = 0
           /\ last.gen.nil

\* C9: Read persists the record it was given, every attribute unchanged,
\* and does not call the hasher.
C9_ReadPassesThrough ==
    [][(last'.op = "Read")
        => /\ state' = state
           /\ ~last'.gen.called
           /\ last'.gen.hashCalls = 0]_vars

\* C9 witness: a complete record right after a Read that read it.
C9_Witness ==
    /\ last.op = "Read" /\ last.stateOk
    /\ state.present
    /\ state.attrs.hash.st = "known"
    /\ state.attrs.password.st = "known"

\* C10 as stated: the persisted record is absent or has every attribute of
\* the schema set.
FullyPresent(var, attrs) == \A a \in SchemaAttributes(var) : attrs[a].st = "known"

C10_AbsentOrFullyPresent ==
    state.present => FullyPresent(variant, state.attrs)

\* C11: ImportState with key k persists a record whose id is k and whose
\* other attributes are all null, without calling the hasher; a Read of an
\* imported record leaves its id as it was, so it is still k.
C11_ImportWritesOnlyId ==
    [][/\ (last'.op = "ImportState")
            => /\ state'.present
               /\ last'.key.st = "known"
               /\ state'.attrs = [ZeroModel EXCEPT !.id = last'.key]
               /\ ~last'.gen.called
               /\ last'.gen.hashCalls = 0
       /\ (last'.op = "Read" /\ last.op = "ImportState")
            => /\ state'.present
               /\ state'.attrs.id = last.key
               /\ ~last'.gen.called]_vars

\* C11 witness: an imported record, right after the Read that follows the
\* import, with the import key as id and nothing else set.
C11_Witness ==
    /\ origin = "import"
    /\ last.op = "Read" /\ last.stateOk
    /\ state.present
    /\ state.attrs.id = StringValue("imported-id")
    /\ state.attrs.password.st = "null"
    /\ state.attrs.hash.st = "null"

\* The text a Create or Update puts into its diagnostics, as a function of
\* how the call failed and of nothing else: first the response's
\* diagnostics, then the ones generatePassword adds to its own copy.
ConversionText ==
    [severity |-> "error", summary |-> "Value Conversion Error",
     detail |-> [format |-> "An unexpected error was encountered trying to build a value. %s",
                 arg |-> "Target Type: Argon2ResourceModel"]]

ResponseText(l) ==
    IF ~l.planOk \/ ~l.stateOk THEN <<ConversionText>> ELSE <<>>

EngineText(g) ==
    (IF g.optErr
     THEN <<[severity |-> "error", summary |-> "Argon 2 initialization error",
             detail |-> [format |-> "Unable to generate hash, got error %s",
                         arg |-> "argon2 validation error: parameter is invalid"]]>>
     ELSE <<>>)
    \o (IF g.newErr
        THEN <<[severity |-> "error", summary |-> "Argon 2 error",
                detail |-> [format |-> "Unable to create Argon2, got error: %s",
                            arg |-> "argon2 validation error: profile is invalid"]]>>
        ELSE IF g.hashErr
        THEN <<[severity |-> "error", summary |-> "Argon 2 error",
                detail |-> [format |-> "Unable to hash Argon2, got error: %s",
                            arg |-> "argon2 hashing error: error reading random bytes for the salt"]]>>
        ELSE <<>>)

\* The passwords and salts a record or a configuration may hold.
SecretTexts == Passwords \cup Salts

NoSecretIn(ds) ==
    \A i \in 1..Len(ds) :
        /\ ds[i].summary \notin SecretTexts
        /\ ds[i].detail.format \notin SecretTexts
        /\ ds[i].detail.arg \notin SecretTexts

\* C12: after a Create or an Update, the summary and detail of every
\* diagnostic -- those of the response and those generatePassword built --
\* are determined by the way the call failed (which Get failed, which library
\* call failed), so two calls that fail the same way carry the same text
\* whatever the password, salt and hash are; and no summary, format or
\* formatted argument is a password or a salt.  (A hash is never a text a
\* diagnostic is built from: every argument is a library error text.)
C12_DiagnosticsIndependentOfSecrets ==
    (last.op \in {"Create", "Update"})
        => /\ diags = ResponseText(last)
           /\ last.gen.called => last.gen.diag = ResponseText(last) \o EngineText(last.gen)
           /\ NoSecretIn(diags)
           /\ NoSecretIn(last.gen.diag)

\* C12 witness: an Update of a record with a password that failed in the
\* hasher, with both of generatePassword's diagnostics built.
C12_Witness ==
    /\ last.op = "Update" /\ last.planOk
    /\ last.password.st = "known"
    /\ state.present /\ state.attrs.hash.st = "known"
    /\ last.gen.called /\ last.gen.optErr /\ last.gen.hashErr
    /\ Len(last.gen.diag) = 2

\* C13: whenever a Create or an Update has computed a new hash, the record
\* it persisted holds that hash, the hash's iterations, key length, memory
\* and parallelism are the record's iterations, key_len, memory and thread,
\* and in the explicit-salt revision the salt embedded in the hash is the
\* record's salt.
C13_HashEmbedsRecordParameters ==
    (last.op \in {"Create", "Update"} /\ last.gen.called /\ ~last.gen.nil)
        => /\ state.present
           /\ state.attrs.hash = HashValue(last.gen.digest)
           /\ state.attrs.hash.v.t = state.attrs.iterations.v
           /\ state.attrs.hash.v.k = state.attrs.key_len.v
           /\ state.attrs.hash.v.m = state.attrs.memory.v
           /\ state.attrs.hash.v.p = state.attrs.thread.v
           /\ (variant = "explicit" => DigestSalt(state.attrs.hash.v) = state.attrs.salt)

\* C14: an Update whose State.Get of the prior record fails calls no hasher
\* and writes no state: the persisted record stays the prior record.
C14_FailedStateReadWritesNothing ==
    [][(last'.op = "Update" /\ last'.planOk /\ ~last'.stateOk)
            => /\ state' = state
               /\ ~last'.gen.called
               /\ last'.gen.hashCalls = 0]_vars
====
